---------------------------- MODULE Spec2Model ----------------------------
(***************************************************************************)
(* Model of src/main.py (splitwise-tools): the batch upload handler        *)
(* batch_upload_process (share computation, rounding reconciliation,       *)
(* validation gate, persistence) and the push handler push_expenses.       *)
(*                                                                         *)
(* Money is counted in currency minor units (cents): Amount = 100 stands   *)
(* for the spreadsheet value 1.00.  round(x, 2) of the source is rounding  *)
(* of a rational number of cents to the nearest integer, ties to even.     *)
(* The source's tolerance 0.02 is Tolerance = 2 cents.                     *)
(*                                                                         *)
(* Two specifications share the operators translated from the source:      *)
(*   Spec     the application: requests to batch_upload_process,           *)
(*            push_expenses, create_upload and create_expense acting on    *)
(*            the database and the external ledger;                        *)
(*   SpecRow  the per-row computation of batch_upload_process on one       *)
(*            expense row drawn from a richer numeric domain, stage by     *)
(*            stage (shares, AssignRoundingDiff, describe_errors).         *)
(***************************************************************************)
EXTENDS Integers, Sequences, FiniteSets, TLC

VARIABLES uploads, expenses_db, ledger, req, resp, calc

vars == << uploads, expenses_db, ledger, req, resp, calc >>

(***************************************************************************)
(* Bounds of the model.                                                    *)
(***************************************************************************)
\* Spec: rows of one uploaded Expenses sheet
MaxRows == 2
\* Spec: rows of one uploaded Members sheet
MaxMembers == 2
\* Spec: upload records the database may hold
MaxUploads == 1
\* Spec: expenses stored without an upload by the create_expense path
MaxOrphans == 1
\* SpecRow: largest Amount (cents) of the row
MaxAmount == 4
\* SpecRow: largest number of members of the Splitwise group
MaxGroup == 3

(***************************************************************************)
(* Program constants.                                                      *)
(***************************************************************************)
\* abs(diff) < 0.02, in cents
Tolerance == 2
\* member_cell_value / 100: a "share" cell holds a percentage
Percent == 100
\* pandas NaN: an empty cell of the sheet (pd.isna)
NaN == -99
\* 'Payer ID' of a row whose 'Paid by' matched no Members row (left merge)
NoId == 0
\* an upload id no stored upload has ("upload_id": 0 in the context)
NoUpload == 0
\* the Splitwise id of the acting (logged in) user
CurrentUserId == 1

SplitTypes == {"share", "amount", "equal"}

(***************************************************************************)
(* Arithmetic helpers.                                                     *)
(***************************************************************************)
Abs(x) == IF x < 0 THEN -x ELSE x

Min(S) == CHOOSE x \in S : \A y \in S : x <= y

\* round(num / den, 2) on cents: nearest integer, ties to the even one
Round2(num, den) ==
    LET q == num \div den
        r == num % den
    IN  IF 2 * r < den THEN q
        ELSE IF 2 * r > den THEN q + 1
        ELSE IF q % 2 = 0 THEN q ELSE q + 1

RECURSIVE SumOver(_, _)
\* pandas row[columns].sum(): 0 over no column
SumOver(f, S) ==
    IF S = {} THEN 0
    ELSE LET c == CHOOSE x \in S : TRUE IN f[c] + SumOver(f, S \ {c})

(***************************************************************************)
(* Member resolution (main.py 155-171).                                    *)
(* A Members sheet is a sequence of rows [Name, ID]; a member column "_X"  *)
(* is represented by its stripped name "X".                                *)
(***************************************************************************)
Matches(members_df, name) ==
    {i \in DOMAIN members_df : members_df[i].Name = name}

\* member_info['ID'].values[0] raises IndexError when no row matches
ColumnsResolve(cols, members_df) ==
    \A c \in cols : Matches(members_df, c) # {}

\* {'name': ..., 'id': int(member_info['ID'].values[0])}: the first match
members_in_cols(cols, members_df) ==
    [c \in cols |-> members_df[Min(Matches(members_df, c))].ID]

MergedRow(row, payer_id) ==
    [ID |-> row.ID, Amount |-> row.Amount, PaidBy |-> row.PaidBy,
     AllEqual |-> row.AllEqual, SplitType |-> row.SplitType,
     cells |-> row.cells, PayerID |-> payer_id]

\* the rows a left merge on "Paid by" = Name yields for one expense row:
\* one per matching Members row, or one with a missing Payer ID
PayerRows(row, members_df) ==
    LET ms == SelectSeq(members_df, LAMBDA m : m.Name = row.PaidBy)
    IN  IF ms = << >> THEN << MergedRow(row, NoId) >>
        ELSE [i \in 1..Len(ms) |-> MergedRow(row, ms[i].ID)]

RECURSIVE MergePayer(_, _)
\* expenses_df.merge(members_df, how='left', left_on="Paid by", right_on='Name')
MergePayer(rows, members_df) ==
    IF rows = << >> THEN << >>
    ELSE PayerRows(Head(rows), members_df) \o MergePayer(Tail(rows), members_df)

(***************************************************************************)
(* Share calculator (main.py 174-196).                                     *)
(***************************************************************************)
\* getShareOwed(row, member_name, cols_member_names); group_size is
\* len(group.members)
getShareOwed(row, member_name, cols, group_size) ==
    LET member_cell_value == row.cells[member_name]
    IN  IF member_cell_value = NaN THEN 0
        ELSE IF row.AllEqual THEN Round2(row.Amount, group_size)
        ELSE IF row.SplitType = "share"
             THEN Round2(member_cell_value * row.Amount, Percent)
        ELSE IF row.SplitType = "amount" THEN member_cell_value
        ELSE IF row.SplitType = "equal"
             THEN Round2(row.Amount,
                         Cardinality({c \in cols : row.cells[c] # NaN}))
        ELSE 0

\* share_paid without the comparison with "Paid by": every member column is
\* credited the Amount
share_paid_everyone(row, col_name) == row.Amount

\* np.where(expenses_df["Paid by"] == col_name[1:], expenses_df['Amount'], 0)
share_paid(row, col_name) ==
    IF row.PaidBy = col_name THEN row.Amount ELSE 0

\* one row of expenses_df after the loop over cols_member_names
WithShares(row, cols, group_size) ==
    [ID |-> row.ID, Amount |-> row.Amount, PaidBy |-> row.PaidBy,
     AllEqual |-> row.AllEqual, SplitType |-> row.SplitType,
     cells |-> row.cells, PayerID |-> row.PayerID,
     paid |-> [c \in cols |-> share_paid(row, c)],
     owed |-> [c \in cols |-> getShareOwed(row, c, cols, group_size)]]

(***************************************************************************)
(* Rounding reconciler (main.py 199-212).                                  *)
(***************************************************************************)
\* the columns whose share_owed is > 0
share_owed_columns(e, cols) == {c \in cols : e.owed[c] > 0}

\* diff = sum_share_owed - row['Amount']
RoundingDiff(e, cols) == SumOver(e.owed, share_owed_columns(e, cols)) - e.Amount

\* abs(diff) > 0 and abs(diff) < 0.02
NeedsRounding(diff) == Abs(diff) > 0 /\ Abs(diff) < Tolerance

SetOwed(e, owed) ==
    [ID |-> e.ID, Amount |-> e.Amount, PaidBy |-> e.PaidBy,
     AllEqual |-> e.AllEqual, SplitType |-> e.SplitType,
     cells |-> e.cells, PayerID |-> e.PayerID, paid |-> e.paid,
     owed |-> owed]

\* The rows AssignRoundingDiff may return for one row: one per value of
\* random.choice(share_owed_columns).  The empty set stands for the
\* IndexError random.choice raises on an empty list.
AssignRoundingDiff(e, cols) ==
    LET diff == RoundingDiff(e, cols)
    IN  IF NeedsRounding(diff)
        THEN {SetOwed(e, [e.owed EXCEPT ![random_member] = @ - diff]) :
                 random_member \in share_owed_columns(e, cols)}
        ELSE {e}

RECURSIVE ApplyRounding(_, _)
\* expenses_df.apply(AssignRoundingDiff, axis = 1): the possible frames;
\* no frame when some row raises
ApplyRounding(es, cols) ==
    IF es = << >> THEN {<< >>}
    ELSE {<< h >> \o t : h \in AssignRoundingDiff(Head(es), cols),
                         t \in ApplyRounding(Tail(es), cols)}

(***************************************************************************)
(* Batch validator describe_errors (services.helpers.expense_utils, not    *)
(* part of the source files): modelled from the rules of spec section 4.5  *)
(* and the error taxonomy of section 7.  Rows are taken to carry a         *)
(* non-empty currency code.                                                *)
(***************************************************************************)
RowErrors(e, members_df, cols) ==
       (IF e.Amount > 0 THEN {} ELSE {"amount"})
    \cup (IF e.AllEqual \/ e.SplitType \in SplitTypes THEN {} ELSE {"split type"})
    \cup (IF Abs(SumOver(e.owed, cols) - e.Amount) < Tolerance
          THEN {} ELSE {"rounding mismatch"})
    \cup (IF Matches(members_df, e.PaidBy) = {} THEN {"unknown payer"} ELSE {})
    \cup (IF Cardinality(Matches(members_df, e.PaidBy)) > 1
             \/ \E c \in cols : Cardinality(Matches(members_df, c)) > 1
          THEN {"ambiguous member"} ELSE {})
    \cup (IF \E c \in cols : Matches(members_df, c) = {}
          THEN {"unknown member"} ELSE {})

\* error_messages: the errors of every row
describe_errors(es, members_df, cols) ==
    [i \in 1..Len(es) |-> RowErrors(es[i], members_df, cols)]

\* error_count: the number of rows with an error
ErrorCount(error_messages) ==
    Cardinality({i \in DOMAIN error_messages : error_messages[i] # {}})

(***************************************************************************)
(* Persistence collaborator db.crud (not part of the source files):        *)
(* modelled from spec section 6: one upload record and one expense record  *)
(* per row, each with per-member paid/owed sub-records.                    *)
(***************************************************************************)
\* crud.create_upload(db, creator_user_id, group_id)
create_upload_record(group, validated, error_count) ==
    [group |-> group, validated |-> validated, error_count |-> error_count]

\* crud.create_expense(db, upload_id, expense, group_members, creator_user_id)
create_expense_record(upload_id, e, group_members) ==
    [upload_id |-> upload_id,
     within_upload_id |-> e.ID,
     amount |-> e.Amount,
     all_equal |-> e.AllEqual,
     payer_id |-> e.PayerID,
     expense_members |->
        [c \in DOMAIN group_members |->
            [sw_id |-> group_members[c],
             share_paid |-> e.paid[c],
             share_owed |-> e.owed[c]]]]

\* crud.get_expenses_by_upload_id: the stored expenses of an upload, in order
get_expenses_by_upload_id(db, upload_id) ==
    SelectSeq([i \in 1..Len(db) |-> i], LAMBDA i : db[i].upload_id = upload_id)

(***************************************************************************)
(* Requests and responses.                                                 *)
(***************************************************************************)
NoReq == [kind |-> "none"]
NoResp == [kind |-> "none"]

\* an uncaught exception: the request ends in a server error
Raised(error, line) == [kind |-> "raised", error |-> error, line |-> line]

\* names on the sheets
Names == {"A", "B"}
\* the member columns "_X" of the Expenses sheet, by stripped name
ColSets == {{"A"}, {"A", "B"}}
\* Amount values (cents) of an uploaded row
AppAmounts == 1..2
\* values of a member cell of an uploaded row
AppCells == {NaN, 1}
\* len(group.members)
AppGroupSizes == 1..2
\* ('All equal', 'Split type') of a row; 'All equal' is the truth value of
\* the parsed cell (main.py 152) and "" is a missing split type, which an
\* all-equal row is given since getShareOwed never reads it there
AppPolicies ==
    {[AllEqual |-> TRUE, SplitType |-> ""]}
    \cup {[AllEqual |-> FALSE, SplitType |-> s] : s \in SplitTypes \cup {"bogus"}}

\* the Members sheets: row i has ID i
MembersTables ==
    UNION {{[i \in 1..n |-> [Name |-> f[i], ID |-> i]] : f \in [1..n -> Names]} :
              n \in 1..MaxMembers}

\* the rows an Expenses sheet with the columns cols may hold, but for the ID
AppRows(cols) ==
    {[Amount |-> a, PaidBy |-> p, AllEqual |-> pol.AllEqual,
      SplitType |-> pol.SplitType, cells |-> cells] :
        a \in AppAmounts, p \in Names, pol \in AppPolicies,
        cells \in [cols -> AppCells]}

\* row i of the sheet, with its user-given ID
SheetRow(r, id) ==
    [ID |-> id, Amount |-> r.Amount, PaidBy |-> r.PaidBy,
     AllEqual |-> r.AllEqual, SplitType |-> r.SplitType, cells |-> r.cells]

\* the user-given IDs of a sheet of n rows: the ID of row i is one of 1..i
\* (IDs matter only through which rows share one)
SheetIds(n) == {ids \in [1..n -> 1..n] : \A i \in 1..n : ids[i] <= i}

BatchRequest(m, cols, g, rows, ids) ==
    [kind |-> "batch_upload_process", members_df |-> m, cols |-> cols,
     group_size |-> g,
     rows |-> [i \in DOMAIN rows |-> SheetRow(rows[i], ids[i])]]

(***************************************************************************)
(* batch_upload_process (main.py 132-239).                                 *)
(***************************************************************************)
\* the context handed to upload_edit.html
Context(mic, es, error_messages, file_valid, upload_id) ==
    [kind |-> "upload_edit", members_in_cols |-> mic, expenses |-> es,
     error_messages |-> error_messages, file_valid |-> file_valid,
     upload_id |-> upload_id]

\* the gate left open: the batch is stored whatever the validator found
Committable_always(error_count) == TRUE

\* if error_count == 0: (main.py 219)
Committable(error_count) == error_count = 0

\* The frames the handler may have computed when it reaches describe_errors,
\* or the exception that ended it before.
Computed(r) ==
    IF ~ColumnsResolve(r.cols, r.members_df)
    THEN {Raised("IndexError", 161)}
    ELSE LET merged == MergePayer(r.rows, r.members_df)
             es == [i \in 1..Len(merged) |->
                       WithShares(merged[i], r.cols, r.group_size)]
             frames == ApplyRounding(es, r.cols)
         IN  IF frames = {} THEN {Raised("IndexError", 208)}
             ELSE {[kind |-> "frame", expenses |-> f] : f \in frames}

batch_upload_process ==
    /\ resp.kind = "none"
    /\ Len(uploads) < MaxUploads
    /\ \E m \in MembersTables, cols \in ColSets, g \in AppGroupSizes,
          n \in 1..MaxRows :
       \E rows \in [1..n -> AppRows(cols)], ids \in SheetIds(n) :
       LET r == BatchRequest(m, cols, g, rows, ids) IN
       \E o \in Computed(r) :
         /\ req' = r
         /\ IF o.kind = "raised"
            THEN /\ resp' = o
                 /\ UNCHANGED << uploads, expenses_db >>
            ELSE LET mic == members_in_cols(r.cols, r.members_df)
                     es == o.expenses
                     error_messages == describe_errors(es, r.members_df, r.cols)
                     error_count == ErrorCount(error_messages)
                     new_id == Len(uploads) + 1
                 IN  /\ IF Committable(error_count)
                        THEN /\ uploads' = Append(uploads,
                                    create_upload_record("group", TRUE, error_count))
                             /\ expenses_db' = expenses_db \o
                                    [i \in 1..Len(es) |->
                                        create_expense_record(new_id, es[i], mic)]
                        ELSE UNCHANGED << uploads, expenses_db >>
                     /\ resp' = Context(mic, es, error_messages, error_count = 0,
                                        IF error_count = 0 THEN new_id ELSE NoUpload)
    /\ UNCHANGED << ledger, calc >>

(***************************************************************************)
(* push_expenses (main.py 241-300).                                        *)
(***************************************************************************)
\* expenses_to_push[e.within_upload_id] = expense: a dict keeps one entry per
\* key, at the place of the key's first insertion, with the last value
expenses_to_push(db, idxs) ==
    LET first == SelectSeq([k \in 1..Len(idxs) |-> k],
                    LAMBDA k : \A j \in 1..(k - 1) :
                        db[idxs[j]].within_upload_id # db[idxs[k]].within_upload_id)
        last(k) == CHOOSE j \in 1..Len(idxs) :
                      /\ db[idxs[j]].within_upload_id = db[idxs[k]].within_upload_id
                      /\ \A l \in 1..Len(idxs) :
                            db[idxs[l]].within_upload_id = db[idxs[k]].within_upload_id
                                => l <= j
    IN  [n \in 1..Len(first) |-> idxs[last(first[n])]]

\* e.all_equal == True and e.payer_id == sObj.getCurrentUser().getId()
SplitEqually(e) == e.all_equal /\ e.payer_id = CurrentUserId

push_expenses ==
    /\ resp.kind = "none"
    /\ \E upload_id \in 0..MaxUploads :
         /\ req' = [kind |-> "push_expenses", upload_id |-> upload_id]
         /\ IF upload_id \notin DOMAIN uploads
            THEN \* upload is None: upload.group_id raises
                 /\ resp' = Raised("AttributeError", 248)
                 /\ UNCHANGED ledger
            ELSE IF uploads[upload_id].group = "none"
            THEN \* group is None: group.sw_id raises, in the loop or after it
                 /\ resp' = Raised("AttributeError",
                        IF get_expenses_by_upload_id(expenses_db, upload_id) = << >>
                        THEN 293 ELSE 256)
                 /\ UNCHANGED ledger
            ELSE LET to_push == expenses_to_push(expenses_db,
                                    get_expenses_by_upload_id(expenses_db, upload_id))
                 IN  \E created \in [1..Len(to_push) -> BOOLEAN] :
                       LET submitted ==
                               [n \in 1..Len(to_push) |->
                                   [expense |-> to_push[n],
                                    split_equally |-> SplitEqually(expenses_db[to_push[n]]),
                                    created |-> created[n]]]
                           failed == SelectSeq(submitted, LAMBDA s : ~s.created)
                       IN  /\ resp' = [kind |-> "upload_summary",
                                       submitted |-> submitted,
                                       expenses_failed |->
                                          [n \in 1..Len(failed) |->
                                              expenses_db[failed[n].expense].within_upload_id]]
                           /\ ledger' = ledger \cup
                                  {[upload_id |-> upload_id, expense |-> to_push[n]] :
                                      n \in 1..Len(to_push)}
    /\ UNCHANGED << uploads, expenses_db, calc >>

(***************************************************************************)
(* create_upload and create_expense (main.py 303-323).                     *)
(***************************************************************************)
\* GET /create_upload: crud.create_upload(db, creator_user_id) with no group
create_upload ==
    /\ resp.kind = "none"
    /\ Len(uploads) < MaxUploads
    /\ req' = [kind |-> "create_upload"]
    /\ uploads' = Append(uploads, create_upload_record("none", FALSE, 0))
    /\ resp' = [kind |-> "home", new_upload |-> Len(uploads) + 1]
    /\ UNCHANGED << expenses_db, ledger, calc >>

\* the record crud.create_expense can store when it is given no upload_id,
\* no expense and no group_members
OrphanExpense ==
    [upload_id |-> NoUpload, within_upload_id |-> NaN, amount |-> 0,
     all_equal |-> FALSE, payer_id |-> NoId, expense_members |-> << >>]

Orphans == {i \in DOMAIN expenses_db : expenses_db[i].upload_id = NoUpload}

\* POST /create_expense: crud.create_expense(db, creator_user_id) either
\* raises for its missing arguments or stores an expense under no upload
create_expense ==
    /\ resp.kind = "none"
    /\ req' = [kind |-> "create_expense"]
    /\ \/ /\ resp' = Raised("TypeError", 322)
          /\ UNCHANGED expenses_db
       \/ /\ Cardinality(Orphans) < MaxOrphans
          /\ expenses_db' = Append(expenses_db, OrphanExpense)
          /\ resp' = [kind |-> "home", new_upload |-> NoUpload]
    /\ UNCHANGED << uploads, ledger, calc >>

\* the response is returned to the client; the next request can be served
Respond ==
    /\ resp.kind # "none"
    /\ req' = NoReq
    /\ resp' = NoResp
    /\ UNCHANGED << uploads, expenses_db, ledger, calc >>

Init ==
    /\ uploads = << >>
    /\ expenses_db = << >>
    /\ ledger = {}
    /\ req = NoReq
    /\ resp = NoResp
    /\ calc = [stage |-> "off"]

Next ==
    \/ batch_upload_process
    \/ push_expenses
    \/ create_upload
    \/ create_expense
    \/ Respond

Spec == Init /\ [][Next]_vars

(***************************************************************************)
(* SpecRow: the computation of batch_upload_process on one expense row,    *)
(* stage by stage.  The Members sheet lists A, B and C once each; the      *)
(* sheet has the member columns of calc.cols.                              *)
(***************************************************************************)
RowMembers ==
    << [Name |-> "A", ID |-> 1], [Name |-> "B", ID |-> 2], [Name |-> "C", ID |-> 3] >>

RowColSets == {{"A", "B"}, {"A", "B", "C"}}
\* a member cell: empty, a percentage or an amount in cents
RowCells == {NaN, -1, 0, 1, 2, 50}
RowAmounts == 0..MaxAmount
RowGroupSizes == 1..MaxGroup
\* 'Paid by': a member with a column, a member that may have none, a stranger
RowPayers == {"A", "C", "Z"}
RowPolicies == AppPolicies \cup {[AllEqual |-> FALSE, SplitType |-> ""]}

InitRow ==
    /\ uploads = << >>
    /\ expenses_db = << >>
    /\ ledger = {}
    /\ req = NoReq
    /\ resp = NoResp
    /\ \E cols \in RowColSets, g \in RowGroupSizes, a \in RowAmounts,
          p \in RowPayers, pol \in RowPolicies :
       \E cells \in [cols -> RowCells] :
          calc = [stage |-> "input", cols |-> cols, group_size |-> g,
                  row |-> [ID |-> 1, Amount |-> a, PaidBy |-> p,
                           AllEqual |-> pol.AllEqual,
                           SplitType |-> pol.SplitType, cells |-> cells]]

\* main.py 166-196: the payer merge and the two share columns of each member
ComputeShares ==
    /\ calc.stage = "input"
    /\ calc' = [stage |-> "shares", cols |-> calc.cols,
                group_size |-> calc.group_size, row |-> calc.row,
                shares |-> WithShares(MergePayer(<< calc.row >>, RowMembers)[1],
                                      calc.cols, calc.group_size)]
    /\ UNCHANGED << uploads, expenses_db, ledger, req, resp >>

\* main.py 212: expenses_df.apply(AssignRoundingDiff, axis = 1)
Reconcile ==
    /\ calc.stage = "shares"
    /\ IF AssignRoundingDiff(calc.shares, calc.cols) = {}
       THEN calc' = [calc EXCEPT !.stage = "raised"]
       ELSE \E e \in AssignRoundingDiff(calc.shares, calc.cols) :
               calc' = [stage |-> "reconciled", cols |-> calc.cols,
                        group_size |-> calc.group_size, row |-> calc.row,
                        shares |-> calc.shares, e |-> e]
    /\ UNCHANGED << uploads, expenses_db, ledger, req, resp >>

\* main.py 215: describe_errors
Validate ==
    /\ calc.stage = "reconciled"
    /\ calc' = [stage |-> "validated", cols |-> calc.cols,
                group_size |-> calc.group_size, row |-> calc.row,
                shares |-> calc.shares, e |-> calc.e,
                errors |-> RowErrors(calc.e, RowMembers, calc.cols)]
    /\ UNCHANGED << uploads, expenses_db, ledger, req, resp >>

NextRow ==
    \/ ComputeShares
    \/ Reconcile
    \/ Validate

SpecRow == InitRow /\ [][NextRow]_vars

(***************************************************************************)
(* SpecTemplate: get_template_by_group_id (main.py 343-400) on one list of *)
(* group members, stage by stage.  A string is the sequence of its         *)
(* characters: << "J", " ", "1" >> is the name "J 1".                      *)
(***************************************************************************)
\* SpecTemplate: largest number of members of the group
MaxTemplateMembers == 3

\* member.last_name of a member without a last name
None == << "None" >>

Space == << " " >>

Digits == << "0", "1", "2", "3", "4", "5", "6", "7", "8", "9" >>

RECURSIVE str(_)
\* str(n) of a natural number: its decimal digits
str(n) ==
    IF n < 10 THEN << Digits[n + 1] >>
    ELSE str(n \div 10) \o << Digits[(n % 10) + 1] >>

RECURSIVE lstrip(_)
lstrip(s) ==
    IF s # << >> /\ Head(s) = " " THEN lstrip(Tail(s)) ELSE s

RECURSIVE rstrip(_)
rstrip(s) ==
    IF s # << >> /\ s[Len(s)] = " " THEN rstrip(SubSeq(s, 1, Len(s) - 1)) ELSE s

\* str.strip(): the string without its leading and trailing spaces
strip(s) == rstrip(lstrip(s))

\* list.count(name)
count(list, name) == Cardinality({i \in DOMAIN list : list[i] = name})

\* f"{member.first_name} {member_last_name}".strip()
member_full_name(member) ==
    LET member_last_name ==
            IF member.last_name = None THEN << >> ELSE member.last_name
    IN  strip(member.first_name \o Space \o member_last_name)

\* member_names: the full name of every member, in the order of the group
member_names(members) ==
    [i \in 1..Len(members) |-> member_full_name(members[i])]

\* member_names_enum: a repeated name is followed by " " and the number of
\* its occurrences in member_names[0:i + 1]
member_names_enum(names) ==
    [i \in 1..Len(names) |->
        IF count(names, names[i]) > 1
        THEN names[i] \o Space \o str(count(SubSeq(names, 1, i), names[i]))
        ELSE names[i]]

\* expense_headers += [f"_{name}" for name in member_names_enum]
member_headers(names_enum) ==
    [i \in 1..Len(names_enum) |-> << "_" >> \o names_enum[i]]

\* the rows of the 'Members' sheet: (member_name, member.id)
members_ws(members, names_enum) ==
    [i \in 1..Len(members) |-> [Name |-> names_enum[i], ID |-> members[i].id]]

\* member.first_name of the members of a group
TemplateFirstNames == {<< "J" >>, << "J", " ", "1" >>, << "A" >>}
\* member.last_name of the members of a group
TemplateLastNames == {None, << >>, << "1" >>, << "R" >>}

\* group.members: member i of the group has the Splitwise id i
TemplateGroups ==
    UNION {{[i \in 1..n |-> [first_name |-> f[i], last_name |-> l[i], id |-> i]] :
               f \in [1..n -> TemplateFirstNames],
               l \in [1..n -> TemplateLastNames]} :
           n \in 1..MaxTemplateMembers}

InitTemplate ==
    /\ uploads = << >>
    /\ expenses_db = << >>
    /\ ledger = {}
    /\ req = NoReq
    /\ resp = NoResp
    /\ \E members \in TemplateGroups :
          calc = [stage |-> "members", members |-> members]

\* main.py 355-359
BuildNames ==
    /\ calc.stage = "members"
    /\ calc' = [stage |-> "names", members |-> calc.members,
                member_names |-> member_names(calc.members)]
    /\ UNCHANGED << uploads, expenses_db, ledger, req, resp >>

\* main.py 362-368
EnumerateNames ==
    /\ calc.stage = "names"
    /\ calc' = [stage |-> "enum", members |-> calc.members,
                member_names |-> calc.member_names,
                member_names_enum |-> member_names_enum(calc.member_names)]
    /\ UNCHANGED << uploads, expenses_db, ledger, req, resp >>

\* main.py 371 and 390-393: the member columns of the 'Expenses' sheet and
\* the rows of the 'Members' sheet
WriteTemplate ==
    /\ calc.stage = "enum"
    /\ calc' = [stage |-> "template", members |-> calc.members,
                member_names |-> calc.member_names,
                member_names_enum |-> calc.member_names_enum,
                expense_headers |-> member_headers(calc.member_names_enum),
                members_ws |-> members_ws(calc.members, calc.member_names_enum)]
    /\ UNCHANGED << uploads, expenses_db, ledger, req, resp >>

NextTemplate ==
    \/ BuildNames
    \/ EnumerateNames
    \/ WriteTemplate

SpecTemplate == InitTemplate /\ [][NextTemplate]_vars

(***************************************************************************)
(* Claims.                                                                 *)
(***************************************************************************)
\* the request in flight is a batch upload
IsBatch == req.kind = "batch_upload_process"

\* C1 (as claimed): once the row has passed getShareOwed, AssignRoundingDiff
\* and the validator without an error, the share_owed of the member columns
\* add up to the row's Amount exactly.
C1_SumInvariant ==
    (calc.stage = "validated" /\ calc.errors = {})
        => SumOver(calc.e.owed, calc.cols) = calc.e.Amount

\* C2 (as claimed, for a positive Amount): every row of a processed batch
\* has exactly one member column with a nonzero share_paid; it is the
\* 'Paid by' column and holds the Amount.
C2_ExactlyOnePayer ==
    (calc.stage \in {"shares", "reconciled", "validated"} /\ calc.row.Amount > 0) =>
        LET e == IF calc.stage = "shares" THEN calc.shares ELSE calc.e
            payers == {c \in calc.cols : e.paid[c] # 0}
        IN  /\ Cardinality(payers) = 1
            /\ payers = {e.PaidBy}
            /\ e.paid[e.PaidBy] = e.Amount

\* C2 (amended): at most one member column has a nonzero share_paid, namely
\* the 'Paid by' column with the row's Amount, every other column has 0; one
\* column is nonzero exactly when 'Paid by' names a member column and the
\* Amount is not 0.
C2_AtMostOnePayer ==
    calc.stage \in {"shares", "reconciled", "validated"} =>
        LET e == IF calc.stage = "shares" THEN calc.shares ELSE calc.e
            payers == {c \in calc.cols : e.paid[c] # 0}
        IN  /\ payers \subseteq {e.PaidBy}
            /\ \A c \in payers : e.paid[c] = e.Amount
            /\ (payers # {}) <=> (e.PaidBy \in calc.cols /\ e.Amount # 0)

\* C2 witness: a reconciled row whose payer has a column and holds the Amount
C2_Witness ==
    /\ calc.stage = "validated"
    /\ calc.row.PaidBy \in calc.cols
    /\ calc.row.Amount > 0
    /\ calc.e.paid[calc.row.PaidBy] = calc.row.Amount
    /\ calc.e.owed # calc.shares.owed

\* C3 (as claimed): a batch whose member columns resolve and that holds a row
\* with 'All equal' false, an unrecognized split type and a filled member
\* cell gets a report that flags that row, with file_valid false and nothing
\* stored.
C3_UnknownSplitRejected ==
    (/\ IsBatch
     /\ ColumnsResolve(req.cols, req.members_df)
     /\ \E i \in DOMAIN req.rows :
           /\ ~req.rows[i].AllEqual
           /\ req.rows[i].SplitType \notin SplitTypes
           /\ \E c \in req.cols : req.rows[i].cells[c] # NaN)
    => /\ resp.kind = "upload_edit"
       /\ ~resp.file_valid
       /\ resp.upload_id = NoUpload
       /\ \A j \in DOMAIN resp.expenses :
             (~resp.expenses[j].AllEqual
                 /\ resp.expenses[j].SplitType \notin SplitTypes)
             => resp.error_messages[j] # {}

\* C4 (as claimed): on a row with 'All equal' true every member column is
\* given Amount / groupSize rounded to cents, absent cell or not.
C4_AllEqualEveryMember ==
    (calc.stage = "shares" /\ calc.row.AllEqual)
        => \A c \in calc.cols :
              calc.shares.owed[c] = Round2(calc.row.Amount, calc.group_size)

\* C5: a batch upload that reaches the validator stores an upload and one
\* expense per row, in order, exactly when the error count is 0; otherwise,
\* and when the request raises, the database is left as it was, file_valid
\* is false and the returned upload_id is 0.
C5_CommitGate ==
    [][(resp.kind = "none" /\ req'.kind = "batch_upload_process") =>
         IF resp'.kind = "upload_edit"
         THEN IF ErrorCount(resp'.error_messages) = 0
              THEN /\ Len(uploads') = Len(uploads) + 1
                   /\ SubSeq(uploads', 1, Len(uploads)) = uploads
                   /\ Len(expenses_db') = Len(expenses_db) + Len(req'.rows)
                   /\ SubSeq(expenses_db', 1, Len(expenses_db)) = expenses_db
                   /\ \A i \in DOMAIN req'.rows :
                         LET x == expenses_db'[Len(expenses_db) + i]
                         IN  /\ x.upload_id = Len(uploads')
                             /\ x.within_upload_id = req'.rows[i].ID
                             /\ x.amount = req'.rows[i].Amount
                   /\ resp'.file_valid
                   /\ resp'.upload_id = Len(uploads')
              ELSE /\ uploads' = uploads
                   /\ expenses_db' = expenses_db
                   /\ ~resp'.file_valid
                   /\ resp'.upload_id = NoUpload
         ELSE uploads' = uploads /\ expenses_db' = expenses_db]_vars

\* C5 witness: a valid batch of two rows has been stored under a new upload
C5_Witness ==
    /\ IsBatch
    /\ resp.kind = "upload_edit"
    /\ resp.file_valid
    /\ Len(req.rows) = 2
    /\ Len(get_expenses_by_upload_id(expenses_db, resp.upload_id)) = 2

\* C6: every expense submitted to the ledger is stored under an upload that
\* a batch_upload_process run created after its validator counted 0 errors.
C6_PushOnlyValidated ==
    \A s \in ledger :
        /\ s.upload_id \in DOMAIN uploads
        /\ uploads[s.upload_id].validated
        /\ uploads[s.upload_id].error_count = 0
        /\ s.expense \in DOMAIN expenses_db
        /\ expenses_db[s.expense].upload_id = s.upload_id

\* C6 witness: an expense has been pushed while an expense stored by the
\* create_expense path exists
C6_Witness ==
    /\ ledger # {}
    /\ Orphans # {}

HasDuplicateNames(members_df) ==
    \E i, j \in DOMAIN members_df :
        i # j /\ members_df[i].Name = members_df[j].Name

\* C7 (as claimed): with two Members rows of one Name the request never
\* reaches a context with bound member columns and computed shares.
C7_DuplicateNamesRejected ==
    (IsBatch /\ HasDuplicateNames(req.members_df))
        => resp.kind # "upload_edit"

\* C8 (as claimed): a member column that matches no Members row does not
\* stop processing: the response is a report with results for every row.
C8_RowErrorsDoNotAbort ==
    (IsBatch /\ ~ColumnsResolve(req.cols, req.members_df))
        => /\ resp.kind = "upload_edit"
           /\ Len(resp.expenses) >= Len(req.rows)
           /\ Len(resp.error_messages) = Len(resp.expenses)

\* C9 (as claimed, for a positive Amount and cells that are empty or not
\* negative): when the sum of the share_owed of the member columns misses
\* the Amount by less than the tolerance, AssignRoundingDiff returns
\* a row in which exactly one member, one with a nonzero share_owed, has the
\* difference subtracted, every other share_owed and every share_paid
\* being unchanged.
C9_Reconciliation ==
    (/\ calc.stage \in {"reconciled", "raised"}
     /\ calc.row.Amount > 0
     /\ \A c \in calc.cols : calc.row.cells[c] = NaN \/ calc.row.cells[c] >= 0
     /\ NeedsRounding(SumOver(calc.shares.owed, calc.cols) - calc.row.Amount))
    => /\ calc.stage = "reconciled"
       /\ calc.e.paid = calc.shares.paid
       /\ \E c \in calc.cols :
             /\ calc.shares.owed[c] # 0
             /\ calc.e.owed =
                   [calc.shares.owed EXCEPT
                       ![c] = @ - (SumOver(calc.shares.owed, calc.cols)
                                      - calc.row.Amount)]

\* C10 (as claimed): a push of an upload submits each expense stored under
\* it exactly once, and expenses_failed holds one entry per failed submission.
C10_EveryExpensePushedOnce ==
    (req.kind = "push_expenses" /\ resp.kind = "upload_summary") =>
        /\ \A i \in DOMAIN expenses_db :
              expenses_db[i].upload_id = req.upload_id =>
                 Cardinality({n \in DOMAIN resp.submitted :
                                 resp.submitted[n].expense = i}) = 1
        /\ Len(resp.expenses_failed) =
              Cardinality({n \in DOMAIN resp.submitted :
                              ~resp.submitted[n].created})

\* C11 (as claimed): in the template written for a list of group members a
\* full name that occurs once is kept unchanged, the Nth occurrence of a
\* repeated full name is followed by " N", the display names are pairwise
\* distinct, and the name of every member column (the header without its
\* "_") is the Name of exactly one row of the Members sheet, the row of the
\* member the column was written for.
C11_TemplateNamesDistinct ==
    calc.stage = "template" =>
        LET names == calc.member_names
            enum == calc.member_names_enum
        IN  /\ \A i \in DOMAIN names :
                  count(names, names[i]) = 1 => enum[i] = names[i]
            /\ \A i \in DOMAIN names :
                  count(names, names[i]) > 1 =>
                     enum[i] = names[i] \o Space
                                  \o str(count(SubSeq(names, 1, i), names[i]))
            /\ \A i, j \in DOMAIN enum : i # j => enum[i] # enum[j]
            /\ \A i \in DOMAIN calc.expense_headers :
                  Matches(calc.members_ws, Tail(calc.expense_headers[i])) = {i}

=============================================================================
